---- MODULE Spec2Model ----
(***************************************************************************)
(* netbox/wireless/api/serializers.py: WirelessLANSerializer and           *)
(* WirelessLinkSerializer, two declarative model serializers.  The state   *)
(* is the two persisted entity tables the serializers read and write and   *)
(* the outcome of the latest serializer call.                              *)
(***************************************************************************)
EXTENDS Integers, Sequences, FiniteSets, TLC

VARIABLES lans, links, last

vars == <<lans, links, last>>

\* ------------------------------------------------------------------ bounds
\* At most MaxRows rows are persisted, in the two tables together.
MaxRows == 2

\* ------------------------------------------------------- external values
\* A value of a representation or of a request body.  Every value has the same
\* shape: t is the JSON type, s/i/h the scalar payload, o the members of an object
\* (a sequence of <<key, value>> pairs, in order).
JNull == [t |-> "null", s |-> "", i |-> 0, h |-> "", o |-> <<>>]
JStr(str) == [t |-> "str", s |-> str, i |-> 0, h |-> "", o |-> <<>>]
JInt(n) == [t |-> "int", s |-> "", i |-> n, h |-> "", o |-> <<>>]
JUrl(host, route, pk) == [t |-> "url", s |-> route, i |-> pk, h |-> host, o |-> <<>>]
JObj(pairs) == [t |-> "obj", s |-> "", i |-> 0, h |-> "", o |-> pairs]

IsScalar(v) == v.t \in {"null", "str", "int", "url"}

Keys(pairs) == [n \in 1..Len(pairs) |-> pairs[n][1]]

KeySet(pairs) == {pairs[n][1] : n \in 1..Len(pairs)}

HasKey(pairs, k) == \E n \in 1..Len(pairs) : pairs[n][1] = k

Get(pairs, k) == pairs[CHOOSE n \in 1..Len(pairs) : pairs[n][1] = k][2]

\* An unset foreign key, and a foreign key to the row with primary key pk.
None == <<>>
Ref(pk) == <<pk>>

\* ------------------------------------------------- serializer declarations
\* LANFields without the vlan field.
LANFields_novlan == <<"id", "url", "display", "ssid", "description">>

\* LANFields with an attribute of the entity added to the list.
LANFields_leak == <<"id", "url", "display", "ssid", "description", "vlan", "created">>

LANFields == <<"id", "url", "display", "ssid", "description", "vlan">>

LinkFields == <<"id", "url", "display", "interface_a", "interface_b", "ssid", "description">>

Fields(ser) == IF ser = "lan" THEN LANFields ELSE LinkFields

\* Meta.model of each serializer, as written in the source.
LANModel == "WirelessLAN"

LinkModel == "WirelessLAN"

MetaModel(ser) == IF ser = "lan" THEN LANModel ELSE LinkModel

LANViewName == "wireless-api:wirelesslan-detail"

LinkViewName == "wireless-api:wirelesslink-detail"

ViewName(ser) == IF ser = "lan" THEN LANViewName ELSE LinkViewName

\* The vlan field declared without required=False.
VlanRequired_on == TRUE

\* The vlan field declared without allow_null=True.
VlanAllowNull_off == FALSE

\* The interface fields declared with required=False.
InterfaceRequired_off == FALSE

\* vlan = NestedVLANSerializer(required=False, allow_null=True)
VlanRequired == FALSE

VlanAllowNull == TRUE

\* interface_a = NestedInterfaceSerializer(): a field is required and rejects null
\* unless it says otherwise.
InterfaceRequired == TRUE

InterfaceAllowNull == FALSE

RelationalFields == {"vlan", "interface_a", "interface_b"}

RelatedKind(f) == IF f = "vlan" THEN "vlan" ELSE "interface"

\* ---------------------------------------------------------- collaborators
\* The rows of the related tables (owned by the persistence layer).
VLANs == {1}

Interfaces == {1, 2}

Related(kind) == IF kind = "vlan" THEN VLANs ELSE Interfaces

\* The request context of a call: the host of the request, or no request at all.
NoRequest == "no-request"

Contexts == {"h1", "h2", NoRequest}

\* The attributes of the two entity types.  "created" stands for the attributes
\* an entity carries that no serializer declares.
ModelAttrs(model) ==
    IF model = "WirelessLAN"
    THEN {"id", "ssid", "description", "vlan", "created"}
    ELSE {"id", "interface_a", "interface_b", "ssid", "description", "created"}

\* The network name is a mandatory attribute; the description is optional.
ModelFieldRequired(f) == f = "ssid"

\* A foreign key that may be unset on a persisted row.
FKNullable(f) == f = "vlan"

NewLAN(pk) == [id |-> pk, ssid |-> "", description |-> "", vlan |-> None, created |-> "t0"]

NewLink(pk) ==
    [id |-> pk, interface_a |-> None, interface_b |-> None, ssid |-> "",
     description |-> "", created |-> "t0"]

NestedViewName(kind) == IF kind = "vlan" THEN "ipam-api:vlan-detail" ELSE "dcim-api:interface-detail"

\* The display label of the row pk of a table: a string that names the row.
JLabel(kind, pk) == [t |-> "str", s |-> kind, i |-> pk, h |-> "", o |-> <<>>]

\* The nested reference of a related row: identifier, self link and label.
NestedRef(kind, pk, host) ==
    JObj(<< <<"id", JInt(pk)>>,
            <<"url", JUrl(host, NestedViewName(kind), pk)>>,
            <<"display", JLabel(kind, pk)>> >>)

\* The display field: the entity's own label (a network is labelled by its ssid).
Display(ser, inst) ==
    IF ser = "lan" THEN JStr(inst.ssid) ELSE JLabel("wirelesslink", inst.id)

\* id and display are read-only fields of the base serializer; url is an identity
\* field, which is read-only by construction.
ReadOnly(f) == f \in {"id", "url", "display"}

\* ---------------------------------------------------------------- read path
\* The vlan field declared with a serializer that expands the VLAN's own relations.
VlanField_full(pk, host) ==
    JObj(<< <<"id", JInt(pk)>>,
            <<"url", JUrl(host, NestedViewName("vlan"), pk)>>,
            <<"display", JLabel("vlan", pk)>>,
            <<"group", NestedRef("vlan-group", pk, host)>> >>)

\* The serializer a relational field is declared with, applied to the related row.
VlanField(pk, host) == NestedRef("vlan", pk, host)

InterfaceField(pk, host) == NestedRef("interface", pk, host)

RelationField(f, pk, host) ==
    IF f = "vlan" THEN VlanField(pk, host) ELSE InterfaceField(pk, host)

\* Whether field f of instance inst can be read: the attribute exists, a mandatory
\* foreign key is set, and a field that builds a URL has a request to build it from.
FieldReadable(ser, f, inst, ctx) ==
    CASE f = "url" -> ctx # NoRequest
      [] f = "display" -> TRUE
      [] f \in RelationalFields ->
           /\ f \in DOMAIN inst
           /\ inst[f] = None => FKNullable(f)
           /\ inst[f] # None => ctx # NoRequest
      [] OTHER -> f \in DOMAIN inst

\* The value field f of inst is represented by; an unset attribute is null.
FieldValue(ser, f, inst, ctx) ==
    CASE f = "id" -> JInt(inst.id)
      [] f = "url" -> JUrl(ctx, ViewName(ser), inst.id)
      [] f = "display" -> Display(ser, inst)
      [] f \in RelationalFields ->
           IF inst[f] = None THEN JNull ELSE RelationField(f, inst[f][1], ctx)
      [] OTHER -> JStr(inst[f])

\* to_representation: one <<key, value>> pair per declared field, in declared order,
\* or the failure of the first field that cannot be read.
ToRepresentation(ser, inst, ctx) ==
    LET fs == Fields(ser) IN
    IF \A n \in 1..Len(fs) : FieldReadable(ser, fs[n], inst, ctx)
    THEN [err |-> "none",
          rep |-> [n \in 1..Len(fs) |-> <<fs[n], FieldValue(ser, fs[n], inst, ctx)>>]]
    ELSE [err |-> "SerializationError", rep |-> <<>>]

\* --------------------------------------------------------------- write path
\* Every declared field writable, the read-only ones too.
WritableFields_all(ser) == {Fields(ser)[n] : n \in 1..Len(Fields(ser))}

WritableFields(ser) == {Fields(ser)[n] : n \in {m \in 1..Len(Fields(ser)) : ~ReadOnly(Fields(ser)[m])}}

\* Whether field f must be present in a full (non partial) request: as declared
\* for a declared field, as the entity type has it for the others.
Required(ser, f) ==
    CASE f = "vlan" -> VlanRequired
      [] f \in {"interface_a", "interface_b"} -> InterfaceRequired
      [] OTHER -> ModelFieldRequired(f)

AllowNull(f) == IF f = "vlan" THEN VlanAllowNull ELSE InterfaceAllowNull

\* The primary key a written reference names: the number itself, or the id member
\* of a nested reference; 0 when it names none.
RefPk(v) ==
    CASE v.t = "int" -> v.i
      [] v.t = "obj" /\ HasKey(v.o, "id") -> Get(v.o, "id").i
      [] OTHER -> 0

\* Whether value v is accepted for field f (to_internal_value of the field).
FieldValid(f, v) ==
    CASE f \in RelationalFields ->
           IF v.t = "null" THEN AllowNull(f) ELSE RefPk(v) \in Related(RelatedKind(f))
      [] f = "id" -> v.t = "int"
      [] f \in {"ssid", "description"} -> v.t = "str"
      [] OTHER -> TRUE

\* The attribute value the accepted value v of field f stands for.
FieldInternal(f, v) ==
    CASE f \in RelationalFields -> IF v.t = "null" THEN None ELSE Ref(RefPk(v))
      [] f = "id" -> v.i
      [] f \in {"ssid", "description"} -> v.s
      [] OTHER -> v

\* run_validation that rejects every key of data that is no writable declared field.
RunValidation_strict(ser, data, partial) ==
    LET W == WritableFields(ser)
        given == W \cap DOMAIN data
    IN [errors |-> {f \in W \ given : ~partial /\ Required(ser, f)}
                     \cup {f \in given : ~FieldValid(f, data[f])}
                     \cup (DOMAIN data \ W),
        attrs |-> [f \in given |-> FieldInternal(f, data[f])]]

\* run_validation: only the writable declared fields are looked at.  errors are the
\* fields rejected (a required field missing from a full request, or a bad value);
\* attrs the validated attributes, one per writable field present in data.
RunValidation(ser, data, partial) ==
    LET W == WritableFields(ser)
        given == W \cap DOMAIN data
    IN [errors |-> {f \in W \ given : ~partial /\ Required(ser, f)}
                     \cup {f \in given : ~FieldValid(f, data[f])},
        attrs |-> [f \in given |-> FieldInternal(f, data[f])]]

\* Model(**attrs): the class rejects a keyword that is no attribute of it.
Constructible(model, attrs) == DOMAIN attrs \subseteq ModelAttrs(model)

\* The new row of class model with primary key pk and the given attributes.
Construct(model, pk, attrs) ==
    LET base == IF model = "WirelessLAN" THEN NewLAN(pk) ELSE NewLink(pk)
    IN [a \in DOMAIN base |-> IF a \in DOMAIN attrs THEN attrs[a] ELSE base[a]]

\* update: each validated attribute is set on the instance.
SetAttrs(inst, attrs) ==
    [a \in DOMAIN inst |-> IF a \in DOMAIN attrs THEN attrs[a] ELSE inst[a]]

\* ------------------------------------------------------------------- state
\* lans, links: the persisted rows of the two tables, in creation order; the row
\* created n-th is given primary key n.
\* last: the latest serializer call.  op is the call, ser the serializer, id the
\* row it was about (0: none), ctx the request context of a read, keys the keys of
\* the request body, errors the fields validation rejected, err the outcome, model
\* the class a create instantiated, rep the representation a read produced, src the
\* row whose representation the request body was (0: none).
Idle ==
    [op |-> "none", ser |-> "", id |-> 0, ctx |-> "", keys |-> {}, errors |-> {},
     err |-> "none", model |-> "", rep |-> <<>>, src |-> 0]

Init ==
    /\ lans = <<>>
    /\ links = <<>>
    /\ last = Idle

Table(ser) == IF ser = "lan" THEN lans ELSE links

\* The request bodies tried on each serializer.
Body(pairs) == [k \in KeySet(pairs) |-> Get(pairs, k)]

LANBodies ==
    << Body(<<>>),
       Body(<< <<"ssid", JStr("a")>> >>),
       Body(<< <<"ssid", JStr("a")>>, <<"description", JStr("d")>>, <<"vlan", JInt(1)>> >>),
       Body(<< <<"ssid", JStr("a")>>, <<"vlan", JNull>> >>),
       Body(<< <<"ssid", JStr("a")>>, <<"vlan", JInt(9)>> >>),
       Body(<< <<"description", JStr("d")>> >>),
       Body(<< <<"id", JInt(7)>>, <<"url", JStr("u")>>, <<"display", JStr("x")>>,
               <<"ssid", JStr("a")>> >>),
       Body(<< <<"ssid", JStr("a")>>, <<"color", JStr("red")>> >>) >>

LinkBodies ==
    << Body(<<>>),
       Body(<< <<"interface_a", JInt(1)>>, <<"interface_b", JInt(2)>>, <<"ssid", JStr("a")>> >>),
       Body(<< <<"interface_a", JInt(2)>>, <<"interface_b", JInt(1)>>, <<"ssid", JStr("a")>>,
               <<"description", JStr("d")>> >>),
       Body(<< <<"interface_b", JInt(2)>>, <<"ssid", JStr("a")>> >>),
       Body(<< <<"interface_a", JInt(1)>>, <<"ssid", JStr("a")>> >>),
       Body(<< <<"interface_a", JNull>>, <<"interface_b", JInt(2)>>, <<"ssid", JStr("a")>> >>),
       Body(<< <<"interface_a", JInt(9)>>, <<"interface_b", JInt(2)>>, <<"ssid", JStr("a")>> >>),
       Body(<< <<"id", JInt(7)>>, <<"url", JStr("u")>>, <<"display", JStr("x")>>,
               <<"interface_a", JInt(1)>>, <<"interface_b", JInt(2)>>, <<"ssid", JStr("a")>> >>),
       Body(<< <<"interface_a", JInt(1)>>, <<"interface_b", JInt(2)>>, <<"ssid", JStr("a")>>,
               <<"color", JStr("red")>> >>),
       Body(<< <<"description", JStr("d")>> >>) >>

Bodies(ser) == IF ser = "lan" THEN LANBodies ELSE LinkBodies

\* ------------------------------------------------------------------ actions
\* A read that saves the row it has read, with a new access stamp.
Read_touch(ser, pk, ctx) ==
    LET r == ToRepresentation(ser, Table(ser)[pk], ctx) IN
    /\ last' = [Idle EXCEPT !.op = "read", !.ser = ser, !.id = pk, !.ctx = ctx,
                            !.err = r.err, !.rep = r.rep]
    /\ IF ser = "lan"
       THEN /\ lans' = [lans EXCEPT ![pk].created = "t1"]
            /\ UNCHANGED links
       ELSE /\ links' = [links EXCEPT ![pk].created = "t1"]
            /\ UNCHANGED lans

\* serializer(instance, context={'request': ...}).data on the row pk of the
\* serializer's table.
Read(ser, pk, ctx) ==
    LET r == ToRepresentation(ser, Table(ser)[pk], ctx) IN
    /\ last' = [Idle EXCEPT !.op = "read", !.ser = ser, !.id = pk, !.ctx = ctx,
                            !.err = r.err, !.rep = r.rep]
    /\ UNCHANGED <<lans, links>>

\* serializer(data=data).is_valid() and .save() with no instance: create.  The row
\* is an instance of the serializer's Meta.model and goes to that class's table.
Create(ser, data, src) ==
    LET v == RunValidation(ser, data, FALSE)
        model == MetaModel(ser)
        call == [Idle EXCEPT !.op = "create", !.ser = ser, !.keys = DOMAIN data, !.src = src]
    IN
    IF v.errors # {}
    THEN /\ last' = [call EXCEPT !.errors = v.errors, !.err = "ValidationError"]
         /\ UNCHANGED <<lans, links>>
    ELSE IF ~Constructible(model, v.attrs)
    THEN /\ last' = [call EXCEPT !.err = "TypeError", !.model = model]
         /\ UNCHANGED <<lans, links>>
    ELSE IF model = "WirelessLAN"
    THEN /\ Len(lans) + Len(links) < MaxRows
         /\ lans' = Append(lans, Construct(model, Len(lans) + 1, v.attrs))
         /\ last' = [call EXCEPT !.id = Len(lans) + 1, !.model = model]
         /\ UNCHANGED links
    ELSE /\ Len(lans) + Len(links) < MaxRows
         /\ links' = Append(links, Construct(model, Len(links) + 1, v.attrs))
         /\ last' = [call EXCEPT !.id = Len(links) + 1, !.model = model]
         /\ UNCHANGED lans

\* serializer(instance, data=data, partial=partial).is_valid() and .save(): update
\* of the row pk of the serializer's table.
Update(ser, pk, data, partial, src) ==
    LET v == RunValidation(ser, data, partial)
        call == [Idle EXCEPT !.op = IF partial THEN "partial_update" ELSE "update",
                             !.ser = ser, !.id = pk, !.keys = DOMAIN data, !.src = src]
    IN
    IF v.errors # {}
    THEN /\ last' = [call EXCEPT !.errors = v.errors, !.err = "ValidationError"]
         /\ UNCHANGED <<lans, links>>
    ELSE /\ last' = call
         /\ IF ser = "lan"
            THEN /\ lans' = [lans EXCEPT ![pk] = SetAttrs(lans[pk], v.attrs)]
                 /\ UNCHANGED links
            ELSE /\ links' = [links EXCEPT ![pk] = SetAttrs(links[pk], v.attrs)]
                 /\ UNCHANGED lans

LANRead == \E pk \in DOMAIN lans, ctx \in Contexts : Read("lan", pk, ctx)

LANCreate == \E n \in DOMAIN LANBodies : Create("lan", LANBodies[n], 0)

LANUpdate == \E pk \in DOMAIN lans, n \in DOMAIN LANBodies : Update("lan", pk, LANBodies[n], FALSE, 0)

LANPartialUpdate ==
    \E pk \in DOMAIN lans, n \in DOMAIN LANBodies : Update("lan", pk, LANBodies[n], TRUE, 0)

\* The client sends back the representation it has just read: as a new network, or
\* as a full update of the network it read.
LANEchoCreate ==
    /\ last.op = "read" /\ last.ser = "lan" /\ last.err = "none"
    /\ Create("lan", Body(last.rep), last.id)

LANEchoUpdate ==
    /\ last.op = "read" /\ last.ser = "lan" /\ last.err = "none"
    /\ Update("lan", last.id, Body(last.rep), FALSE, last.id)

LinkRead == \E pk \in DOMAIN links, ctx \in Contexts : Read("link", pk, ctx)

\* The link serializer applied to an instance that is not saved and has an
\* interface unset.
LinkReadUnsaved ==
    \E a \in {None, Ref(1)}, b \in {None, Ref(2)}, ctx \in Contexts :
        LET inst == [NewLink(0) EXCEPT !.interface_a = a, !.interface_b = b]
            r == ToRepresentation("link", inst, ctx)
        IN /\ a = None \/ b = None
           /\ last' = [Idle EXCEPT !.op = "read", !.ser = "link", !.ctx = ctx,
                                   !.err = r.err, !.rep = r.rep]
           /\ UNCHANGED <<lans, links>>

LinkCreate == \E n \in DOMAIN LinkBodies : Create("link", LinkBodies[n], 0)

LinkUpdate ==
    \E pk \in DOMAIN links, n \in DOMAIN LinkBodies : Update("link", pk, LinkBodies[n], FALSE, 0)

LinkPartialUpdate ==
    \E pk \in DOMAIN links, n \in DOMAIN LinkBodies : Update("link", pk, LinkBodies[n], TRUE, 0)

\* A link saved by the application outside the serializers (the persistence
\* layer): both interfaces set, to the two ends of the link.
PersistLink ==
    \E a \in Interfaces, b \in Interfaces :
        /\ a # b
        /\ Len(lans) + Len(links) < MaxRows
        /\ links' = Append(links, [NewLink(Len(links) + 1) EXCEPT
                                     !.interface_a = Ref(a), !.interface_b = Ref(b), !.ssid = "a"])
        /\ last' = Idle
        /\ UNCHANGED lans

Next ==
    \/ LANRead
    \/ LANCreate
    \/ LANUpdate
    \/ LANPartialUpdate
    \/ LANEchoCreate
    \/ LANEchoUpdate
    \/ LinkRead
    \/ LinkReadUnsaved
    \/ LinkCreate
    \/ LinkUpdate
    \/ LinkPartialUpdate
    \/ PersistLink

Spec == Init /\ [][Next]_vars

\* ------------------------------------------------------------------ claims
IsRead(l) == l.op = "read"

IsWrite(l) == l.op \in {"create", "update", "partial_update"}

ReadOk(l) == IsRead(l) /\ l.err = "none"

DeclaredKeys(ser) == {Fields(ser)[n] : n \in 1..Len(Fields(ser))}

\* C1: the keys of every representation a read produces are exactly the declared
\* list of the resource type, in that order, whatever attributes the entity carries.
C1_FieldSetAndOrder ==
    ReadOk(last) =>
        Keys(last.rep) =
            IF last.ser = "lan"
            THEN <<"id", "url", "display", "ssid", "description", "vlan">>
            ELSE <<"id", "url", "display", "interface_a", "interface_b", "ssid", "description">>

\* A network that carries the undeclared attribute "created" has been read.
C1_Witness ==
    /\ ReadOk(last) /\ last.ser = "lan"
    /\ "created" \in DOMAIN lans[last.id]

\* The read half of C2: a representation of a link has both interfaces present and
\* not null, so a link with an interface unset yields no representation.
LinkReadHasInterfaces ==
    (ReadOk(last) /\ last.ser = "link") =>
        \A f \in {"interface_a", "interface_b"} :
            HasKey(last.rep, f) /\ Get(last.rep, f).t = "obj"

OmitsInterface(l) == ~({"interface_a", "interface_b"} \subseteq l.keys)

C3_CreateNetwork ==
    [][(last'.op = "create" /\ last'.ser = "lan") =>
          /\ ("ssid" \in last'.keys /\ "vlan" \notin last'.keys) =>
                 /\ last'.err = "none"
                 /\ Len(lans') = Len(lans) + 1
                 /\ lans'[Len(lans')].vlan = None
          /\ "ssid" \notin last'.keys =>
                 /\ last'.err = "ValidationError"
                 /\ "ssid" \in last'.errors
                 /\ lans' = lans /\ links' = links]_vars

\* A network has been created from the mapping that holds ssid alone.
C3_Witness ==
    /\ last.op = "create" /\ last.ser = "lan" /\ last.keys = {"ssid"}
    /\ last.err = "none" /\ lans[last.id].vlan = None

\* C4: the representation of a network whose vlan is unset has the key vlan, with
\* the value null.
C4_NullVlanExplicit ==
    (ReadOk(last) /\ last.ser = "lan") =>
        /\ HasKey(last.rep, "vlan")
        /\ lans[last.id].vlan = None => Get(last.rep, "vlan") = JNull

\* A network with no vlan has been read.
C4_Witness == ReadOk(last) /\ last.ser = "lan" /\ lans[last.id].vlan = None

C6_Original ==
    (IsWrite(last) /\ ~(last.keys \subseteq DeclaredKeys(last.ser))) =>
        last.err = "ValidationError"

\* C6 amended: a key outside the declared field list is ignored by the write path:
\* no validation error is reported for it, a request fails validation only for a
\* declared field, and the key never becomes an attribute of a persisted entity.
C6_Amended ==
    /\ (IsWrite(last) /\ ~(last.keys \subseteq DeclaredKeys(last.ser))) =>
           /\ last.errors \subseteq DeclaredKeys(last.ser)
           /\ last.err = "ValidationError" <=> last.errors # {}
    /\ \A n \in DOMAIN lans : DOMAIN lans[n] = ModelAttrs("WirelessLAN")
    /\ \A n \in DOMAIN links : DOMAIN links[n] = ModelAttrs("WirelessLink")

\* A network has been created from a mapping that holds the unknown key color.
C6_Witness ==
    /\ last.op = "create" /\ last.ser = "lan" /\ "color" \in last.keys
    /\ last.err = "none" /\ last.id = Len(lans)

\* C7: every row keeps the identifier it was given at creation (the n-th row
\* created has identifier n), so no two rows of a table share one, whatever the
\* request bodies supplied for id, url or display.
C7_IdImmutable ==
    /\ \A n \in DOMAIN lans : lans[n].id = n
    /\ \A n \in DOMAIN links : links[n].id = n

\* An update whose body supplies id, url and display has been applied while the
\* table holds two networks.
C7_Witness ==
    /\ last.op \in {"update", "partial_update"} /\ last.ser = "lan"
    /\ {"id", "url", "display"} \subseteq last.keys
    /\ last.err = "none" /\ Len(lans) = 2

C10_BackingModel ==
    (IsWrite(last) /\ last.model # "") =>
        last.model = IF last.ser = "lan" THEN "WirelessLAN" ELSE "WirelessLink"

====
